---- MODULE Spec2Model ----
(***************************************************************************)
(* Spatial domain explorer (ExploreView): the domain tree store, modelled  *)
(* over an explicit object heap so that object identity, sharing and       *)
(* in-place mutation are observable, and the asynchronous orchestration    *)
(* (child fetch effect, load-more, search, context-add) around it.         *)
(***************************************************************************)
EXTENDS Integers, Sequences, FiniteSets, TLC

VARIABLES
    heap,            \* the JS object heap: heap[a] is the Domain record at reference a
    domainTree,      \* reference of the current tree's root (prop domainTree)
    currentPath,     \* useState currentPath
    isLoading,       \* useState isLoading
    isMoreLoading,   \* useState isMoreLoading
    isSearching,     \* useState isSearching
    error,           \* useStatus().error
    loadMoreVariant, \* useState loadMoreVariant
    promises,        \* the generateAIDomains calls issued so far, with the closure each continuation captured
    call,            \* SpecTree only: one direct call of updateNodeByPath and its result
    zoomLevel,       \* useState zoomLevel, an exact fraction [n, d]
    pan,             \* useState pan
    isPinchEnabled,  \* useState isPinchEnabled
    isDragging,      \* useRef isDragging
    lastPanPosition, \* useRef lastPanPosition
    dragStartPos,    \* useRef dragStartPos
    startDragTime,   \* useRef startDragTime
    lastPointerType, \* useRef lastPointerType
    activePointers,  \* useRef activePointers: the Map pointerId -> {x, y}
    initialPinchDistance, \* useRef initialPinchDistance, NoDistance for null
    initialZoomLevel,     \* useRef initialZoomLevel
    now,             \* Date.now(), in ms
    panAtDown,       \* history: the pan offset when the pointer went down that has been the only one down since; (0,0) when there is none
    baselinePointers, \* history: the ids of the pointers initialPinchDistance was measured between
    click,           \* "pending": the browser is about to dispatch the click of the pointer that just went up; "requested": a sphere's tap request has just been handled; else "none"
    layout           \* SpecLayout only: one call of calculateChaoticLayout, its nodes and loop counter

\* the refs and state of the gesture controller that navigation leaves alone
pointerRefs == <<isPinchEnabled, isDragging, lastPanPosition, dragStartPos,
                 startDragTime, lastPointerType, activePointers,
                 initialPinchDistance, initialZoomLevel, now, panAtDown,
                 baselinePointers>>
gestureRefs == <<pointerRefs, click>>

vars == <<heap, domainTree, currentPath, isLoading, isMoreLoading, isSearching,
          error, loadMoreVariant, promises, call, zoomLevel, pan, gestureRefs,
          layout>>

appVars == <<currentPath, isLoading, isMoreLoading, isSearching, error,
             loadMoreVariant, promises>>

----------------------------------------------------------------------------
(* Names are sequences of characters, so that toLowerCase, toUpperCase and *)
(* length act on them as they do on strings.                               *)

Art   == <<"A", "r", "t">>
art   == <<"a", "r", "t">>
Music == <<"M", "u", "s", "i", "c">>
Jazz  == <<"J", "a", "z", "z">>
SparkSphere == <<"S", "p", "a", "r", "k">>
RootId == <<"r", "o", "o", "t">>

toLowerCaseChar(c) ==
    CASE c = "A" -> "a" [] c = "M" -> "m" [] c = "J" -> "j" [] c = "S" -> "s"
      [] OTHER -> c

toUpperCaseChar(c) ==
    CASE c = "a" -> "A" [] c = "m" -> "M" [] c = "j" -> "J" [] c = "s" -> "S"
      [] c = "r" -> "R" [] c = "t" -> "T" [] c = "u" -> "U" [] c = "i" -> "I"
      [] c = "c" -> "C" [] c = "z" -> "Z" [] c = "p" -> "P" [] c = "k" -> "K"
      [] c = "o" -> "O"
      [] OTHER -> c

toLowerCase(s) == [i \in 1..Len(s) |-> toLowerCaseChar(s[i])]

----------------------------------------------------------------------------
(* Domain records.  children is null or an array of references; position   *)
(* is absent or an {x, y} object; source is "ai", "user" or absent.        *)

NullChildren == [arr |-> FALSE, items |-> <<>>]
Arr(s) == [arr |-> TRUE, items |-> s]
NoPos == [set |-> FALSE, x |-> 0, y |-> 0]
Pos(px, py) == [set |-> TRUE, x |-> px, y |-> py]
NoSource == "undefined"

Domain(i, n, c, s, p) ==
    [id |-> i, name |-> n, children |-> c, source |-> s, position |-> p]

\* the new child as it would be if it were given a position
aiDomain_Positioned(n) == Domain(n, n, NullChildren, "ai", Pos(50, 50))

\* name => ({ id: name, name, children: null, source: 'ai' })
aiDomain(n) == Domain(n, n, NullChildren, "ai", NoPos)

Null == 0

\* a heap cell that holds no object
Free == Domain(<<>>, <<>>, NullChildren, "free", NoPos)

\* the reference a new object gets: the lowest cell that holds no object
newRef(h) ==
    IF \E a \in 1..Len(h) : h[a] = Free
    THEN CHOOSE a \in 1..Len(h) : h[a] = Free /\ \A b \in 1..(a - 1) : h[b] # Free
    ELSE Len(h) + 1

\* an object literal { ... }: a new object, with a reference of its own
alloc(h, rec) ==
    LET ref == newRef(h)
    IN [heap |-> IF ref = Len(h) + 1 THEN Append(h, rec) ELSE [h EXCEPT ![ref] = rec],
        ref |-> ref]

\* names.map(name => ({...})): one new object per name, in order
RECURSIVE allocDomains(_, _)
allocDomains(h, names) ==
    IF names = <<>> THEN [heap |-> h, items |-> <<>>]
    ELSE LET n == alloc(h, aiDomain(Head(names)))
             r == allocDomains(n.heap, Tail(names))
         IN [heap |-> r.heap, items |-> <<n.ref>> \o r.items]

\* no direct call (the value of call outside SpecTree)
NoCall == [state |-> "none", path |-> <<>>, newChildren |-> <<>>, root |-> Null]

\* children?.find(child => child.name === name): the first match, or Null
RECURSIVE findChild(_, _, _)
findChild(h, items, name) ==
    IF items = <<>> THEN Null
    ELSE IF h[Head(items)].name = name THEN Head(items)
    ELSE findChild(h, Tail(items), name)

RECURSIVE findNodeByPath(_, _, _)
findNodeByPath(h, root, path) ==
    IF path = <<>> THEN root
    ELSE LET nextNode == findChild(h, h[root].children.items, Head(path))
         IN IF nextNode = Null THEN Null
            ELSE findNodeByPath(h, nextNode, Tail(path))

RECURSIVE cloneDomainTree(_, _), cloneAll(_, _)

\* cloneDomainTree as it would be without the copy: the node itself
cloneDomainTree_InPlace(h, node) == [heap |-> h, node |-> node]

\* cloneDomainTree as it would be with "if (node.children?.length)": an
\* empty array comes back as null
cloneDomainTree_EmptyToNull(h, node) ==
    LET newNode == Domain(h[node].id, h[node].name, NullChildren, h[node].source,
                          IF h[node].position.set
                          THEN Pos(h[node].position.x, h[node].position.y)
                          ELSE NoPos)
        n == alloc(h, newNode)
    IN IF h[node].children.arr /\ h[node].children.items # <<>>
       THEN LET r == cloneAll(n.heap, h[node].children.items)
            IN [heap |-> [r.heap EXCEPT ![n.ref].children = Arr(r.items)], node |-> n.ref]
       ELSE [heap |-> n.heap, node |-> n.ref]

cloneDomainTree(h, node) ==
    LET newNode == Domain(h[node].id, h[node].name, NullChildren, h[node].source,
                          IF h[node].position.set
                          THEN Pos(h[node].position.x, h[node].position.y)
                          ELSE NoPos)
        n == alloc(h, newNode)
    IN IF h[node].children.arr
       THEN LET r == cloneAll(n.heap, h[node].children.items)
            IN [heap |-> [r.heap EXCEPT ![n.ref].children = Arr(r.items)], node |-> n.ref]
       ELSE [heap |-> n.heap, node |-> n.ref]

cloneAll(h, items) ==
    IF items = <<>> THEN [heap |-> h, items |-> <<>>]
    ELSE LET c == cloneDomainTree(h, Head(items))
             r == cloneAll(c.heap, Tail(items))
         IN [heap |-> r.heap, items |-> <<c.node>> \o r.items]

\* new Map(children.map(c => [c.id, c])).get(id): the last child with that id
RECURSIVE existingChildrenMap(_, _, _)
existingChildrenMap(h, items, id) ==
    IF items = <<>> THEN Null
    ELSE IF h[items[Len(items)]].id = id THEN items[Len(items)]
    ELSE existingChildrenMap(h, SubSeq(items, 1, Len(items) - 1), id)

\* newChildren.map(newChild => existing && existing.position
\*                 ? { ...newChild, position: existing.position } : newChild)
RECURSIVE carryPositions(_, _, _)

\* the map as it would be without the position carry-over: newChildren as given
carryPositions_NoCarry(h, existingItems, newChildren) ==
    [heap |-> h, items |-> newChildren]

carryPositions(h, existingItems, newChildren) ==
    IF newChildren = <<>> THEN [heap |-> h, items |-> <<>>]
    ELSE LET newChild == Head(newChildren)
             existing == existingChildrenMap(h, existingItems, h[newChild].id)
         IN IF existing # Null /\ h[existing].position.set
            THEN LET n == alloc(h, [h[newChild] EXCEPT !.position = h[existing].position])
                     r == carryPositions(n.heap, existingItems, Tail(newChildren))
                 IN [heap |-> r.heap, items |-> <<n.ref>> \o r.items]
            ELSE LET r == carryPositions(h, existingItems, Tail(newChildren))
                 IN [heap |-> r.heap, items |-> <<newChild>> \o r.items]

updateNodeByPath(h, root, path, newChildren) ==
    LET c == cloneDomainTree(h, root)
        newRoot == c.node
        currentNode == findNodeByPath(c.heap, newRoot, path)
    IN IF currentNode = Null THEN [heap |-> c.heap, root |-> newRoot]
       ELSE LET m == carryPositions(c.heap, c.heap[currentNode].children.items, newChildren)
            IN [heap |-> [m.heap EXCEPT ![currentNode].children = Arr(m.items)],
                root |-> newRoot]

----------------------------------------------------------------------------
(* Reading the heap.                                                       *)

RECURSIVE Reach(_, _), ReachAll(_, _)
\* the references of the node records reachable from node
Reach(h, node) ==
    IF node = Null THEN {} ELSE {node} \cup ReachAll(h, h[node].children.items)
ReachAll(h, items) ==
    IF items = <<>> THEN {} ELSE Reach(h, Head(items)) \cup ReachAll(h, Tail(items))

\* the objects no reference leads to any more are dropped: every cell that
\* is reachable from none of roots becomes free
collect(h, roots) ==
    LET live == UNION {Reach(h, r) : r \in roots}
        top == IF live = {} THEN 0 ELSE CHOOSE a \in live : \A b \in live : b <= a
    IN [a \in 1..top |-> IF a \in live THEN h[a] ELSE Free]

RECURSIVE TreeVal(_, _)
\* the tree below node as a value: every field of every node, in order
TreeVal(h, node) ==
    [id |-> h[node].id, name |-> h[node].name, source |-> h[node].source,
     position |-> h[node].position, arr |-> h[node].children.arr,
     items |-> [i \in 1..Len(h[node].children.items) |->
                   TreeVal(h, h[node].children.items[i])]]

----------------------------------------------------------------------------
(* ExploreView: state, effects and handlers.                               *)

MaxPromises == 2

\* the first-level names (imported from the service module)
ROOT_DOMAINS == <<Art, Music>>

\* what generateAIDomains may resolve to
ResolverResults == {<<>>, <<art, Art, Jazz>>}

\* what the user may have typed in the search box
Queries == {art}

\* searchQuery.trim().charAt(0).toUpperCase() + searchQuery.trim().slice(1)
capitalize(q) == <<toUpperCaseChar(Head(q))>> \o Tail(q)

Promise(k, t, path, term, variant) ==
    [kind |-> k, status |-> "pending", value |-> <<>>, tree |-> t, path |-> path,
     term |-> term, variant |-> variant]

Pending(k) == {i \in 1..Len(promises) : promises[i].kind = k /\ promises[i].status = "pending"}

\* a settled promise: it holds its value, its continuation has run and the
\* closure is released
settle(ps, i, st, v) ==
    [ps EXCEPT ![i].status = st, ![i].value = v, ![i].tree = Null, ![i].path = <<>>]

\* the trees the closures of the pending continuations hold
closureTrees(ps) == {ps[i].tree : i \in {j \in 1..Len(ps) : ps[j].status = "pending"}}

\* the heap once the handler has returned and the view is rendered with tree
rendered(h, tree, ps) == collect(h, {tree} \cup closureTrees(ps))

\* useMemo(() => domainTree ? findNodeByPath(domainTree, currentPath) : null)
currentNodeOf(h, tree, path) ==
    IF tree = Null THEN Null ELSE findNodeByPath(h, tree, path)

currentNode == currentNodeOf(heap, domainTree, currentPath)

\* the effect of lines 260-297, run after a render in which domainTree or
\* currentPath changed; the await leaves a pending promise whose continuation
\* closes over the domainTree and currentPath of that render
fetchChildrenIfNeeded(h, tree, path, loading, err, ps) ==
    LET node == currentNodeOf(h, tree, path)
    IN IF node # Null /\ ~h[node].children.arr
       THEN [isLoading |-> TRUE, error |-> "null",
             promises |-> Append(ps, Promise("children", tree, path, h[node].name, 0))]
       ELSE IF node # Null
       THEN [isLoading |-> FALSE, error |-> err, promises |-> ps]
       ELSE [isLoading |-> loading, error |-> err, promises |-> ps]

----------------------------------------------------------------------------
(* The view state of the gesture controller. The zoom level is an exact    *)
(* fraction, so that prev + 0.2 and initialZoomLevel * ratio are computed  *)
(* and not approximated; points are {x, y} records.                        *)

RECURSIVE GCD(_, _)
GCD(a, b) == IF b = 0 THEN a ELSE GCD(b, a % b)

\* the fraction n / d in lowest terms (n >= 0, d > 0)
Rat(n, d) == LET g == GCD(n, d) IN [n |-> n \div g, d |-> d \div g]

One == Rat(1, 1)
RatLeq(a, b) == a.n * b.d <= b.n * a.d
RatMin(a, b) == IF RatLeq(a, b) THEN a ELSE b
RatMax(a, b) == IF RatLeq(a, b) THEN b ELSE a
RatAdd(a, b) == Rat(a.n * b.d + b.n * a.d, a.d * b.d)
\* a - b, for a >= b
RatSub(a, b) == Rat(a.n * b.d - b.n * a.d, a.d * b.d)
RatMul(a, b) == Rat(a.n * b.n, a.d * b.d)

Point(x, y) == [x |-> x, y |-> y]
Origin == Point(0, 0)

\* new Map()
NoPointers == [i \in {} |-> Origin]

\* initialPinchDistance.current === null
NoDistance == -1

\* Date.now() when the component is mounted: far from the 0 that
\* startDragTime is initialised with
MountTime == 1000

\* no call of calculateChaoticLayout is modelled
NoLayout == [state |-> "none"]

\* the refs and state as the component is mounted (182-196)
GestureInit ==
    /\ zoomLevel = One
    /\ pan = Origin
    /\ isPinchEnabled = FALSE
    /\ isDragging = FALSE
    /\ lastPanPosition = Origin
    /\ dragStartPos = Origin
    /\ startDragTime = 0
    /\ lastPointerType = "touch"
    /\ activePointers = NoPointers
    /\ initialPinchDistance = NoDistance
    /\ initialZoomLevel = One
    /\ now = MountTime
    /\ panAtDown = Origin
    /\ baselinePointers = {}
    /\ click = "none"

\* the render after a path change as it would be without the reset effect
AfterPathChange_NoReset(path, loading, ps) ==
    LET e == fetchChildrenIfNeeded(heap, domainTree, path, loading, error, ps)
    IN /\ currentPath' = path
       /\ loadMoreVariant' = 0
       /\ UNCHANGED <<zoomLevel, pan>>
       /\ isLoading' = e.isLoading
       /\ error' = e.error
       /\ promises' = e.promises
       /\ Len(promises') <= MaxPromises

\* a render after currentPath changed: the reset effect (206-219) and the
\* fetch effect
AfterPathChange(path, loading, ps) ==
    LET e == fetchChildrenIfNeeded(heap, domainTree, path, loading, error, ps)
    IN /\ currentPath' = path
       /\ loadMoreVariant' = 0
       /\ zoomLevel' = One
       /\ pan' = Origin
       /\ isLoading' = e.isLoading
       /\ error' = e.error
       /\ promises' = e.promises
       /\ Len(promises') <= MaxPromises

\* a render after setDomainTree(tree) with currentPath unchanged; the state
\* updates of one continuation are applied together (automatic batching), so
\* the fetch effect runs after the finally branch's setIsLoading(false)
AfterTreeChange(h, tree, loading, err, ps) ==
    LET e == fetchChildrenIfNeeded(h, tree, currentPath, loading, err, ps)
    IN /\ heap' = rendered(h, tree, e.promises)
       /\ domainTree' = tree
       /\ isLoading' = e.isLoading
       /\ error' = e.error
       /\ promises' = e.promises
       /\ Len(promises') <= MaxPromises

\* renderContent shows the spheres (623-655)
contentShown ==
    /\ ~isSearching
    /\ currentNode # Null
    /\ ~(isLoading /\ ~heap[currentNode].children.arr)

\* fetchInitialDomains: the SparkSphere root over ROOT_DOMAINS
fetchInitialDomains(h) ==
    LET c == allocDomains(h, ROOT_DOMAINS)
        r == alloc(c.heap, Domain(RootId, SparkSphere, Arr(c.items), NoSource, NoPos))
    IN [heap |-> r.heap, root |-> r.ref]

Init ==
    /\ LET r == fetchInitialDomains(<<>>)
       IN heap = r.heap /\ domainTree = r.root
    /\ currentPath = <<>>
    /\ isLoading = FALSE
    /\ isMoreLoading = FALSE
    /\ isSearching = FALSE
    /\ error = "null"
    /\ loadMoreVariant = 0
    /\ promises = <<>>
    /\ call = NoCall
    /\ GestureInit
    /\ layout = NoLayout

handleSelectDomain(name) ==
    /\ contentShown
    /\ findChild(heap, heap[currentNode].children.items, name) # Null
    /\ AfterPathChange(Append(currentPath, name), isLoading, promises)
    /\ UNCHANGED <<heap, domainTree, isMoreLoading, isSearching, call, layout>>

\* a tap on a child that the gesture controller lets through
SelectChild(name) == handleSelectDomain(name) /\ UNCHANGED gestureRefs

handleBack ==
    /\ Len(currentPath) > 0
    /\ AfterPathChange(SubSeq(currentPath, 1, Len(currentPath) - 1), isLoading, promises)
    /\ UNCHANGED <<heap, domainTree, isMoreLoading, isSearching, call, gestureRefs, layout>>

handleNavigate(pathIndex) ==
    /\ pathIndex \in 0..(Len(currentPath) - 1)
    /\ AfterPathChange(SubSeq(currentPath, 1, pathIndex + 1), isLoading, promises)
    /\ UNCHANGED <<heap, domainTree, isMoreLoading, isSearching, call, gestureRefs, layout>>

\* the breadcrumb button of a searched root: setCurrentPath([])
handleNavigateRoot ==
    /\ domainTree # Null
    /\ heap[domainTree].name # SparkSphere
    /\ AfterPathChange(<<>>, isLoading, promises)
    /\ UNCHANGED <<heap, domainTree, isMoreLoading, isSearching, call, gestureRefs, layout>>

handleGoHome ==
    IF domainTree # Null /\ heap[domainTree].name = SparkSphere
    THEN /\ AfterPathChange(<<>>, isLoading, promises)
         /\ UNCHANGED <<heap, domainTree, isMoreLoading, isSearching, call, gestureRefs, layout>>
    ELSE LET r == fetchInitialDomains(heap)
             e == fetchChildrenIfNeeded(r.heap, r.root, <<>>, FALSE, error, promises)
         IN /\ heap' = rendered(r.heap, r.root, e.promises)
            /\ domainTree' = r.root
            /\ currentPath' = <<>>
            /\ loadMoreVariant' = 0
            /\ zoomLevel' = One
            /\ pan' = Origin
            /\ isLoading' = e.isLoading
            /\ error' = e.error
            /\ promises' = e.promises
            /\ UNCHANGED <<isMoreLoading, isSearching, call, gestureRefs, layout>>

\* the continuation as it would be if it dropped the fetched names
fetchChildrenResolve_Discard(i, names) ==
    /\ i \in Pending("children")
    /\ isLoading' = FALSE
    /\ promises' = settle(promises, i, "fulfilled", names)
    /\ heap' = rendered(heap, domainTree, promises')
    /\ UNCHANGED <<domainTree, currentPath, error, isMoreLoading, isSearching,
                   loadMoreVariant, call, zoomLevel, pan, gestureRefs, layout>>

\* the child fetch of the effect resolves with names
fetchChildrenResolve(i, names) ==
    /\ i \in Pending("children")
    /\ LET p == promises[i]
           aiChildren == allocDomains(heap, names)
           treeWithNew == updateNodeByPath(aiChildren.heap, p.tree, p.path, aiChildren.items)
       IN AfterTreeChange(treeWithNew.heap, treeWithNew.root, FALSE, error,
                          settle(promises, i, "fulfilled", names))
    /\ UNCHANGED <<currentPath, isMoreLoading, isSearching, loadMoreVariant, call, zoomLevel, pan,
                   gestureRefs, layout>>

\* the catch branch as it would be if a failed fetch counted as "no children"
fetchChildrenReject_EmptyChildren(i) ==
    /\ i \in Pending("children")
    /\ LET p == promises[i]
           t == updateNodeByPath(heap, p.tree, p.path, <<>>)
       IN AfterTreeChange(t.heap, t.root, FALSE, "Failed to load domains.",
                          settle(promises, i, "rejected", <<>>))
    /\ UNCHANGED <<currentPath, isMoreLoading, isSearching, loadMoreVariant, call, zoomLevel, pan,
                   gestureRefs, layout>>

\* the child fetch of the effect rejects
fetchChildrenReject(i) ==
    /\ i \in Pending("children")
    /\ error' = "Failed to load domains."
    /\ isLoading' = FALSE
    /\ promises' = settle(promises, i, "rejected", <<>>)
    /\ heap' = rendered(heap, domainTree, promises')
    /\ UNCHANGED <<domainTree, currentPath, isMoreLoading, isSearching,
                   loadMoreVariant, call, zoomLevel, pan,
                   gestureRefs, layout>>

\* handleLoadMore up to its await; both buttons are disabled while
\* isMoreLoading || isLoading
handleLoadMore ==
    /\ ~isMoreLoading
    /\ ~isLoading
    /\ currentNode # Null
    /\ isMoreLoading' = TRUE
    /\ promises' = Append(promises, Promise("more", domainTree, currentPath,
                                            heap[currentNode].name, loadMoreVariant + 1))
    /\ Len(promises') <= MaxPromises
    /\ UNCHANGED <<heap, domainTree, currentPath, isLoading, isSearching, error,
                   loadMoreVariant, call, zoomLevel, pan,
                   gestureRefs, layout>>

\* the filter as it would be with existingSet.has(n): an exact comparison
uniqueNew_CaseSensitive(h, existing, newNames) ==
    LET existingSet == {h[existing[k]].name : k \in 1..Len(existing)}
    IN SelectSeq(newNames, LAMBDA n : n \notin existingSet)

\* newNames.filter(n => !existingSet.has(n.toLowerCase()))
uniqueNew(h, existing, newNames) ==
    LET existingSet == {toLowerCase(h[existing[k]].name) : k \in 1..Len(existing)}
    IN SelectSeq(newNames, LAMBDA n : toLowerCase(n) \notin existingSet)

\* handleLoadMore after its await resolved with newNames
handleLoadMoreResolve(i, newNames) ==
    /\ i \in Pending("more")
    /\ LET p == promises[i]
           ps == settle(promises, i, "fulfilled", newNames)
           freshParent == findNodeByPath(heap, p.tree, p.path)
       IN /\ loadMoreVariant' = p.variant
          /\ isMoreLoading' = FALSE
          /\ IF newNames # <<>> /\ p.tree # Null /\ freshParent # Null
             THEN LET existing == heap[freshParent].children.items
                      newDomains == allocDomains(heap, uniqueNew(heap, existing, newNames))
                      newTree == updateNodeByPath(newDomains.heap, p.tree, p.path,
                                                  existing \o newDomains.items)
                  IN AfterTreeChange(newTree.heap, newTree.root, isLoading, error, ps)
             ELSE /\ promises' = ps
                  /\ heap' = rendered(heap, domainTree, ps)
                  /\ UNCHANGED <<domainTree, isLoading, error>>
    /\ UNCHANGED <<currentPath, isSearching, call, zoomLevel, pan,
                   gestureRefs, layout>>

handleLoadMoreReject(i) ==
    /\ i \in Pending("more")
    /\ error' = "Failed to load more."
    /\ isMoreLoading' = FALSE
    /\ promises' = settle(promises, i, "rejected", <<>>)
    /\ heap' = rendered(heap, domainTree, promises')
    /\ UNCHANGED <<domainTree, currentPath, isLoading, isSearching,
                   loadMoreVariant, call, zoomLevel, pan,
                   gestureRefs, layout>>

\* handleSearchSubmit / executeSearch up to its await
executeSearch(q) ==
    /\ isSearching' = TRUE
    /\ AfterPathChange(<<>>, TRUE,
                       Append(promises, Promise("search", Null, <<>>, capitalize(q), 0)))
    /\ UNCHANGED <<heap, domainTree, isMoreLoading, call, gestureRefs, layout>>

\* executeSearch after its await resolved with aiNames
executeSearchResolve(i, aiNames) ==
    /\ i \in Pending("search")
    /\ LET p == promises[i]
           children == allocDomains(heap, aiNames)
           r == alloc(children.heap,
                      Domain(p.term, p.term, Arr(children.items), NoSource, NoPos))
       IN AfterTreeChange(r.heap, r.ref, FALSE, error,
                          settle(promises, i, "fulfilled", aiNames))
    /\ isSearching' = FALSE
    /\ UNCHANGED <<currentPath, isMoreLoading, loadMoreVariant, call, zoomLevel, pan,
                   gestureRefs, layout>>

executeSearchReject(i) ==
    /\ i \in Pending("search")
    /\ error' = "Search failed."
    /\ isSearching' = FALSE
    /\ isLoading' = FALSE
    /\ promises' = settle(promises, i, "rejected", <<>>)
    /\ heap' = rendered(heap, domainTree, promises')
    /\ UNCHANGED <<domainTree, currentPath, isMoreLoading, loadMoreVariant, call, zoomLevel, pan,
                   gestureRefs, layout>>

\* children.find(c => c.name.toLowerCase() === term.toLowerCase())
hasNameIgnoringCase(h, items, term) ==
    \E k \in 1..Len(items) : toLowerCase(h[items[k]].name) = toLowerCase(term)

\* handleContextSearchSubmit with a non-blank query and a tree
handleContextSearchSubmit(q) ==
    /\ domainTree # Null
    /\ LET term == capitalize(q)
           node == findNodeByPath(heap, domainTree, currentPath)
       IN /\ node # Null
          /\ ~hasNameIgnoringCase(heap, heap[node].children.items, term)
          /\ LET newChild == alloc(heap, aiDomain(term))
                 newTree == updateNodeByPath(newChild.heap, domainTree, currentPath,
                                             heap[node].children.items \o <<newChild.ref>>)
             IN AfterTreeChange(newTree.heap, newTree.root, isLoading, error, promises)
    /\ UNCHANGED <<currentPath, isMoreLoading, isSearching, loadMoreVariant, call, zoomLevel, pan,
                   gestureRefs, layout>>

Next ==
    \/ \E name \in {Art, art, Music, Jazz} : SelectChild(name)
    \/ handleBack
    \/ \E pathIndex \in 0..MaxPromises : handleNavigate(pathIndex)
    \/ handleNavigateRoot
    \/ handleGoHome
    \/ \E i \in 1..MaxPromises, names \in ResolverResults : fetchChildrenResolve(i, names)
    \/ \E i \in 1..MaxPromises : fetchChildrenReject(i)
    \/ handleLoadMore
    \/ \E i \in 1..MaxPromises, names \in ResolverResults : handleLoadMoreResolve(i, names)
    \/ \E i \in 1..MaxPromises : handleLoadMoreReject(i)
    \/ \E q \in Queries : executeSearch(q)
    \/ \E i \in 1..MaxPromises, names \in ResolverResults : executeSearchResolve(i, names)
    \/ \E i \in 1..MaxPromises : executeSearchReject(i)
    \/ \E q \in Queries : handleContextSearchSubmit(q)

Spec == Init /\ [][Next]_vars

\* the orchestration when no child fetch fails
NextResolving ==
    \/ \E name \in {Art, art, Music, Jazz} : SelectChild(name)
    \/ handleBack
    \/ \E pathIndex \in 0..MaxPromises : handleNavigate(pathIndex)
    \/ handleNavigateRoot
    \/ handleGoHome
    \/ \E i \in 1..MaxPromises, names \in ResolverResults : fetchChildrenResolve(i, names)
    \/ handleLoadMore
    \/ \E i \in 1..MaxPromises, names \in ResolverResults : handleLoadMoreResolve(i, names)
    \/ \E i \in 1..MaxPromises : handleLoadMoreReject(i)
    \/ \E q \in Queries : executeSearch(q)
    \/ \E i \in 1..MaxPromises, names \in ResolverResults : executeSearchResolve(i, names)
    \/ \E i \in 1..MaxPromises : executeSearchReject(i)
    \/ \E q \in Queries : handleContextSearchSubmit(q)

\* the continuation of child fetch i can run: the fetch is pending, and the
\* fetch its effect may issue in turn fits the promise bound
fetchChildrenResolveEnabled(i) ==
    /\ i \in Pending("children")
    /\ \E names \in ResolverResults :
        LET p == promises[i]
            aiChildren == allocDomains(heap, names)
            treeWithNew == updateNodeByPath(aiChildren.heap, p.tree, p.path, aiChildren.items)
            e == fetchChildrenIfNeeded(treeWithNew.heap, treeWithNew.root, currentPath, FALSE,
                                       error, settle(promises, i, "fulfilled", names))
        IN Len(e.promises) <= MaxPromises

\* every child fetch issued returns, and the event loop then runs its
\* continuation: WF_vars(\E names : fetchChildrenResolve(i, names)) written
\* out, with the enabling condition as the state predicate above
ResolverReturns ==
    \A i \in 1..MaxPromises :
        \/ []<>(~fetchChildrenResolveEnabled(i))
        \/ []<><<\E names \in ResolverResults : fetchChildrenResolve(i, names)>>_vars

SpecLive == Init /\ [][NextResolving]_vars /\ ResolverReturns

\* promise i settles: the continuation or the catch branch of its await runs
promiseSettles(i) ==
    \/ fetchChildrenReject(i)
    \/ handleLoadMoreReject(i)
    \/ executeSearchReject(i)
    \/ \E names \in ResolverResults : fetchChildrenResolve(i, names)
    \/ \E names \in ResolverResults : handleLoadMoreResolve(i, names)
    \/ \E names \in ResolverResults : executeSearchResolve(i, names)

\* every request issued is answered, with names or with a failure, and the
\* event loop then runs what awaits it; the user may act or not
SpecSettling == Init /\ [][Next]_vars /\ \A i \in 1..MaxPromises : WF_vars(promiseSettles(i))

----------------------------------------------------------------------------
(* Claims about the orchestration, checked under Spec.                     *)

\* this step settles promise i of kind k with status st
Settles(i, k, st) ==
    /\ i \in 1..Len(promises)
    /\ promises[i].kind = k
    /\ promises[i].status = "pending"
    /\ promises'[i].status = st

\* the current tree as a value, before and after the step
TreeBefore == TreeVal(heap, domainTree)
TreeAfter == TreeVal(heap', domainTree')

\* C2: a child fetch or load-more result that resolves after the root was
\* replaced is discarded: when the continuation's tree has another root than
\* the current tree, the step that resolves it leaves the current tree as it
\* is.
C2_StaleResultDiscarded ==
    [][\A i \in 1..Len(promises) :
         ( /\ Settles(i, "children", "fulfilled") \/ Settles(i, "more", "fulfilled")
           /\ heap[promises[i].tree].id # heap[domainTree].id )
         => TreeAfter = TreeBefore]_vars

\* C3: at most one child fetch per path is in flight: no two pending child
\* fetches were issued for the same path of the same tree.
C3_OneFetchPerPath ==
    \A i, j \in Pending("children") :
        (promises[i].path = promises[j].path /\ promises[i].tree = promises[j].tree)
        => i = j

RECURSIVE Grown(_, _)
\* new keeps what old had materialized: the same children first, in order,
\* each kept in the same way; anything more comes after them
Grown(old, new) ==
    old.arr =>
        /\ new.arr
        /\ Len(new.items) >= Len(old.items)
        /\ \A k \in 1..Len(old.items) :
              /\ new.items[k].name = old.items[k].name
              /\ Grown(old.items[k], new.items[k])

\* C4: within one root, materialization is monotone: a step that keeps the
\* root (it is no search result and the root's id stays) never turns a
\* materialized node unresolved, removes a child or replaces a child list.
C4_MaterializationMonotone ==
    [][( /\ \A i \in 1..Len(promises) : ~Settles(i, "search", "fulfilled")
         /\ heap'[domainTree'].id = heap[domainTree].id )
       => Grown(TreeBefore, TreeAfter)]_vars

RECURSIVE SiblingsUnique(_)
\* no two children of a node of tree value t have names equal ignoring case
SiblingsUnique(t) ==
    /\ \A a, b \in 1..Len(t.items) :
          toLowerCase(t.items[a].name) = toLowerCase(t.items[b].name) => a = b
    /\ \A a \in 1..Len(t.items) : SiblingsUnique(t.items[a])

\* C5: no node of the current tree has two children whose names are equal
\* ignoring case.
C5_SiblingNamesUnique == SiblingsUnique(TreeVal(heap, domainTree))

\* C7: a step that sets a new tree leaves no node record reachable from both
\* the previous root and the new root.
C7_NoSharedNodes ==
    [][domainTree' # domainTree
       => Reach(heap', domainTree') \cap Reach(heap, domainTree) = {}]_vars

\* C9: when the child fetch rejects, the tree stays as it is (same root
\* object, same value, so an unresolved node stays unresolved and gets no
\* children) and the error "Failed to load domains." is set.
C9_FetchFailureLeavesTree ==
    [][\A i \in 1..Len(promises) :
         Settles(i, "children", "rejected")
         => /\ domainTree' = domainTree
            /\ TreeAfter = TreeBefore
            /\ error' = "Failed to load domains."]_vars

C9_Witness ==
    /\ \E i \in 1..Len(promises) :
          promises[i].kind = "children" /\ promises[i].status = "rejected"
    /\ error = "Failed to load domains."
    /\ currentNode # Null
    /\ ~heap[currentNode].children.arr
    /\ currentPath # <<>>

\* the unresolved node a resolver name becomes, as a value
NewNodeVal(n) ==
    [id |-> n, name |-> n, source |-> "ai", position |-> NoPos, arr |-> FALSE,
     items |-> <<>>]

\* C10: load-more issued at a node with children E that resolves with N sets
\* the node's children to E, in order, followed by one new unresolved node
\* for each name of N that equals no name of E ignoring case, in N's order;
\* with an empty N the tree stays as it is.
C10_LoadMoreAppendsUnique ==
    [][\A i \in 1..Len(promises) :
         Settles(i, "more", "fulfilled") =>
            LET p == promises[i]
                N == promises'[i].value
                E == TreeVal(heap, findNodeByPath(heap, p.tree, p.path)).items
                fresh == SelectSeq(N, LAMBDA n :
                            \A k \in 1..Len(E) : toLowerCase(E[k].name) # toLowerCase(n))
                target == TreeVal(heap', findNodeByPath(heap', domainTree', p.path))
            IN IF N = <<>> THEN TreeAfter = TreeBefore
               ELSE /\ target.arr
                    /\ target.items = E \o [k \in 1..Len(fresh) |-> NewNodeVal(fresh[k])]]_vars

C10_Witness ==
    /\ \E i \in 1..Len(promises) :
          /\ promises[i].kind = "more"
          /\ promises[i].status = "fulfilled"
          /\ promises[i].value = <<art, Art, Jazz>>
    /\ currentPath = <<>>
    /\ LET t == TreeVal(heap, domainTree)
       IN /\ t.name = SparkSphere
          /\ [k \in 1..Len(t.items) |-> t.items[k].name] = <<Art, Music, Jazz>>

----------------------------------------------------------------------------
(* SpecTree: updateNodeByPath called once on an arbitrary tree, path and   *)
(* newChildren.  The input heap holds a root with two children, an         *)
(* optional grandchild, and two objects outside the tree.                  *)

PosChoices == {NoPos, Pos(10, 10), Pos(0, 0)}

TreePaths ==
    {<<>>, <<Art>>, <<Music>>, <<Art, art>>, <<Jazz>>, <<Art, Jazz>>, <<Music, Art>>,
     <<art>>}

NewChildrenChoices ==
    {<<>>, <<5>>, <<5, 6>>, <<6, 5>>, <<2, 3, 5>>, <<4, 6>>}

InputHeap(k2, p2, p3, n4, p4, id5, n5, p5, id6) ==
    << Domain(RootId, SparkSphere, Arr(<<2, 3>>), NoSource, NoPos),
       Domain(Art, Art, k2, "ai", p2),
       Domain(Music, Music, NullChildren, "user", p3),
       Domain(n4, n4, NullChildren, "ai", p4),
       Domain(id5, n5, NullChildren, "ai", p5),
       Domain(id6, id6, Arr(<<>>), "user", NoPos) >>

InitTree ==
    /\ \E k2 \in {NullChildren, Arr(<<>>), Arr(<<4>>)},
          p2 \in PosChoices, p3 \in {NoPos, Pos(70, 30)},
          n4 \in {art}, p4 \in {NoPos, Pos(10, 10)},
          id5 \in {Art, Music, Jazz}, n5 \in {Art, Jazz}, p5 \in {NoPos, Pos(55, 55)},
          id6 \in {Music} :
            heap = InputHeap(k2, p2, p3, n4, p4, id5, n5, p5, id6)
    /\ domainTree = 1
    /\ \E p \in TreePaths, nc \in NewChildrenChoices :
            call = [state |-> "ready", path |-> p, newChildren |-> nc, root |-> Null]
    /\ currentPath = <<>>
    /\ isLoading = FALSE
    /\ isMoreLoading = FALSE
    /\ isSearching = FALSE
    /\ error = "null"
    /\ loadMoreVariant = 0
    /\ promises = <<>>
    /\ GestureInit
    /\ layout = NoLayout

\* const newRoot = updateNodeByPath(root, path, newChildren)
UpdateCall ==
    /\ call.state = "ready"
    /\ LET r == updateNodeByPath(heap, domainTree, call.path, call.newChildren)
       IN /\ heap' = r.heap
          /\ call' = [call EXCEPT !.state = "done", !.root = r.root]
    /\ UNCHANGED <<domainTree, appVars, zoomLevel, pan, gestureRefs, layout>>

NextTree == UpdateCall

SpecTree == InitTree /\ [][NextTree]_vars

----------------------------------------------------------------------------
(* Claims about updateNodeByPath, checked under SpecTree.                  *)

\* the node the call's path names in the input tree, or Null
CallTarget == findNodeByPath(heap, domainTree, call.path)

\* C1: updateNodeByPath never mutates a node reachable from the root it was
\* given: every record reachable from the original root is the same record
\* after the call, whether or not the path resolves.
C1_NoMutation ==
    [][\A a \in Reach(heap, domainTree) : heap'[a] = heap[a]]_vars

C1_Witness ==
    /\ call.state = "done"
    /\ CallTarget # Null
    /\ call.newChildren # <<>>
    /\ TreeVal(heap, call.root) # TreeVal(heap, domainTree)

\* C6: with a resolving path the target's children become newChildren in
\* order: a new child whose id is the id of an existing child that has a
\* position is a copy of the new child carrying that position, and every
\* other new child is the given object itself.
C6_ReplaceCarriesPositions ==
    (call.state = "done" /\ CallTarget # Null) =>
        LET old == heap[CallTarget].children.items
            target == findNodeByPath(heap, call.root, call.path)
            out == heap[target].children
        IN /\ out.arr
           /\ Len(out.items) = Len(call.newChildren)
           /\ \A i \in 1..Len(call.newChildren) :
                LET newChild == call.newChildren[i]
                    hits == {e \in 1..Len(old) :
                                /\ heap[old[e]].id = heap[newChild].id
                                /\ heap[old[e]].position.set}
                IN IF hits # {}
                   THEN \A e \in hits :
                          heap[out.items[i]] =
                            [heap[newChild] EXCEPT !.position = heap[old[e]].position]
                   ELSE out.items[i] = newChild

C6_Witness ==
    /\ call.state = "done"
    /\ CallTarget # Null
    /\ \E i \in 1..Len(call.newChildren) :
         LET target == findNodeByPath(heap, call.root, call.path)
         IN /\ heap[heap[target].children.items[i]].position = Pos(10, 10)
            /\ heap[call.newChildren[i]].position = Pos(55, 55)
    /\ \E i \in 1..Len(call.newChildren) :
         LET target == findNodeByPath(heap, call.root, call.path)
         IN heap[target].children.items[i] = call.newChildren[i]

\* C8: with a path that does not resolve the result is a fresh clone equal
\* to the input tree in every field of every node (null children stay null,
\* an empty array stays an empty array), whatever newChildren is.
C8_UnresolvedPathReturnsClone ==
    (call.state = "done" /\ CallTarget = Null) =>
        /\ call.root # Null
        /\ call.root # domainTree
        /\ TreeVal(heap, call.root) = TreeVal(heap, domainTree)

C8_Witness ==
    /\ call.state = "done"
    /\ CallTarget = Null
    /\ call.newChildren # <<>>
    /\ heap[2].children = Arr(<<>>)
    /\ heap[2].position.set
    /\ heap[3].children = NullChildren
    /\ TreeVal(heap, call.root) = TreeVal(heap, domainTree)

----------------------------------------------------------------------------
(* The gesture controller (441-551): pointer events on the sphere          *)
(* container, the zoom buttons, the pinch toggle, and the tap request a    *)
(* sphere delivers. Pointer 1 is a mouse, pointers 2 and 3 are touches.    *)

PointerIds == {1, 2, 3}
pointerType(id) == IF id = 1 THEN "mouse" ELSE "touch"

\* clientX of the events of a touch and of the mouse; clientY is 0, so that
\* every distance is an integer
TouchXs == {0, 10, 20}
MouseXs == {0, 4, 5}

\* the events' times are Date.now() after one of these delays
TickSteps == {70, 80}

MaxElapsed == 160
MaxPan == 20
MaxZoomDen == 5

DragThreshold == 10
JitterThreshold == 5
TapDuration == 150

ZoomStep == Rat(1, 5)
ZoomMin == Rat(3, 5)
ZoomButtonMax == Rat(2, 1)
ZoomPinchMax == Rat(5, 2)

\* Math.sqrt of a perfect square
Sqrt(n) == CHOOSE r \in 0..n : r * r = n

getDistance(p1, p2) ==
    Sqrt((p2.x - p1.x) * (p2.x - p1.x) + (p2.y - p1.y) * (p2.y - p1.y))

size(ap) == Cardinality(DOMAIN ap)
\* activePointers.current.set(id, p)
set(ap, id, p) == [i \in DOMAIN ap \cup {id} |-> IF i = id THEN p ELSE ap[i]]
\* activePointers.current.delete(id)
delete(ap, id) == [i \in DOMAIN ap \ {id} |-> ap[i]]

\* getDistance(points[0], points[1]) of the two active pointers
pinchDistance(ap) ==
    LET a == CHOOSE i \in DOMAIN ap : TRUE
        b == CHOOSE j \in DOMAIN ap \ {a} : TRUE
    IN getDistance(ap[a], ap[b])

\* what the gesture handlers never touch
treeVars == <<heap, domainTree, appVars, call, layout>>

\* 450-466
onPointerDown(id, p) ==
    /\ contentShown
    /\ click # "pending"
    /\ id \notin DOMAIN activePointers
    /\ LET ap == set(activePointers, id, p)
       IN /\ activePointers' = ap
          /\ IF size(ap) = 2 /\ isPinchEnabled
             THEN /\ initialPinchDistance' = pinchDistance(ap)
                  /\ initialZoomLevel' = zoomLevel
                  /\ isDragging' = FALSE
                  /\ baselinePointers' = DOMAIN ap
                  /\ panAtDown' = Origin
                  /\ UNCHANGED <<lastPanPosition, dragStartPos, startDragTime,
                                 lastPointerType>>
             ELSE IF size(ap) = 1
             THEN /\ isDragging' = FALSE
                  /\ lastPanPosition' = p
                  /\ dragStartPos' = p
                  /\ startDragTime' = now
                  /\ lastPointerType' = pointerType(id)
                  /\ panAtDown' = pan
                  /\ UNCHANGED <<initialPinchDistance, initialZoomLevel,
                                 baselinePointers>>
             ELSE /\ panAtDown' = Origin
                  /\ UNCHANGED <<isDragging, lastPanPosition, dragStartPos,
                                 startDragTime, lastPointerType,
                                 initialPinchDistance, initialZoomLevel,
                                 baselinePointers>>
    /\ click' = "none"
    /\ UNCHANGED <<zoomLevel, pan, isPinchEnabled, now, treeVars>>

\* initialPinchDistance.current as a condition: null and 0 are falsy
truthy(d) == d # NoDistance /\ d # 0

\* the pinch zoom as it would be with the cap of the zoom buttons
pinchZoom_ButtonMax(ap) ==
    LET ratio == Rat(pinchDistance(ap), initialPinchDistance)
    IN RatMin(RatMax(RatMul(initialZoomLevel, ratio), ZoomMin), ZoomButtonMax)

\* the pinch zoom as it would be without the clamp
pinchZoom_Unclamped(ap) ==
    RatMul(initialZoomLevel, Rat(pinchDistance(ap), initialPinchDistance))

\* Math.min(Math.max(initialZoomLevel.current * ratio, 0.6), 2.5)
pinchZoom(ap) ==
    LET ratio == Rat(pinchDistance(ap), initialPinchDistance)
    IN RatMin(RatMax(RatMul(initialZoomLevel, ratio), ZoomMin), ZoomPinchMax)

\* the branch as it would be reached without the size check
tracksOnePointer_Any(ap) == size(ap) >= 1

\* the single-pointer branch of onPointerMove is reached (483)
tracksOnePointer(ap) == size(ap) = 1

\* the commit as it would be with dist >= 10
commitsDrag_AtThreshold(id, p) ==
    \/ pointerType(id) = "mouse"
    \/ getDistance(dragStartPos, p) >= DragThreshold

\* the pointer commits to a drag (486-499)
commitsDrag(id, p) ==
    \/ pointerType(id) = "mouse"
    \/ getDistance(dragStartPos, p) > DragThreshold

\* dx, dy: the way of the pointer since the pan reference (501-502)
panDelta(p) == Point(p.x - lastPanPosition.x, p.y - lastPanPosition.y)

\* 468-506
onPointerMove(id, p) ==
    /\ contentShown
    /\ click # "pending"
    /\ IF id \notin DOMAIN activePointers
       THEN UNCHANGED <<activePointers, zoomLevel, pan, isDragging, lastPanPosition>>
       ELSE LET ap == set(activePointers, id, p)
            IN /\ activePointers' = ap
               /\ IF size(ap) = 2 /\ isPinchEnabled /\ truthy(initialPinchDistance)
                  THEN /\ zoomLevel' = pinchZoom(ap)
                       /\ zoomLevel'.d <= MaxZoomDen
                       /\ UNCHANGED <<pan, isDragging, lastPanPosition>>
                  ELSE IF ~tracksOnePointer(ap)
                  THEN UNCHANGED <<zoomLevel, pan, isDragging, lastPanPosition>>
                  ELSE IF ~isDragging /\ ~commitsDrag(id, p)
                  THEN UNCHANGED <<zoomLevel, pan, isDragging, lastPanPosition>>
                  ELSE /\ isDragging' = TRUE
                       /\ pan' = Point(pan.x + panDelta(p).x, pan.y + panDelta(p).y)
                       /\ pan'.x \in -MaxPan..MaxPan
                       /\ pan'.y \in -MaxPan..MaxPan
                       /\ lastPanPosition' = p
                       /\ UNCHANGED zoomLevel
    /\ UNCHANGED <<isPinchEnabled, dragStartPos, startDragTime, lastPointerType,
                   initialPinchDistance, initialZoomLevel, now, click,
                   panAtDown, baselinePointers, treeVars>>

\* the up as it would be if a committed drag were never taken back
isJitter_Never(id, p) == FALSE

\* the mouse went up where it went down, within the jitter (526)
isJitter(id, p) ==
    pointerType(id) = "mouse" /\ getDistance(dragStartPos, p) < JitterThreshold

\* the up as it would be if the pan reference were left where it was
remaining_Unchanged(ap) == lastPanPosition

\* activePointers.current.values().next().value
remaining(ap) == ap[CHOOSE i \in DOMAIN ap : TRUE]

\* 508-539; the container binds it to pointerup and to pointerleave (599-600).
\* After the up of a tracked pointer the browser may dispatch a click.
onPointerUp(id, p) ==
    /\ contentShown
    /\ click # "pending"
    /\ LET ap == delete(activePointers, id)
       IN /\ activePointers' = ap
          /\ initialPinchDistance' =
                IF size(ap) < 2 THEN NoDistance ELSE initialPinchDistance
          /\ baselinePointers' = IF size(ap) < 2 THEN {} ELSE baselinePointers
          /\ panAtDown' = IF size(ap) = 0 THEN Origin ELSE panAtDown
          /\ IF size(ap) = 0
             THEN /\ isDragging' = IF isJitter(id, p) THEN FALSE ELSE isDragging
                  /\ UNCHANGED lastPanPosition
             ELSE IF size(ap) = 1
             THEN /\ lastPanPosition' = remaining(ap)
                  /\ isDragging' = TRUE
             ELSE UNCHANGED <<isDragging, lastPanPosition>>
    /\ click' = IF id \in DOMAIN activePointers THEN "pending" ELSE "none"
    /\ UNCHANGED <<zoomLevel, pan, isPinchEnabled, dragStartPos, startDragTime,
                   lastPointerType, initialZoomLevel, now, treeVars>>

\* the returns as they would be without the isDragging check
tapAllowed_NoDragCheck ==
    ~(lastPointerType # "mouse" /\ now - startDragTime > TapDuration)

\* the two early returns of handleDomainClickRequest do not apply (543-548)
tapAllowed ==
    /\ ~isDragging
    /\ ~(lastPointerType # "mouse" /\ now - startDragTime > TapDuration)

\* 542-551: the sphere of child name delivers its tap, on the click that
\* follows the pointer's up
handleDomainClickRequest(name) ==
    /\ click = "pending"
    /\ contentShown
    /\ findChild(heap, heap[currentNode].children.items, name) # Null
    /\ click' = "requested"
    /\ IF tapAllowed
       THEN handleSelectDomain(name) /\ UNCHANGED pointerRefs
       ELSE UNCHANGED <<zoomLevel, pan, pointerRefs, treeVars>>

\* the click lands on no sphere, or the pointer left without a click
NoClick ==
    /\ click = "pending"
    /\ click' = "none"
    /\ UNCHANGED <<zoomLevel, pan, pointerRefs, treeVars>>

\* time passes between two events
Tick(d) ==
    /\ click # "pending"
    /\ now + d <= MountTime + MaxElapsed
    /\ now' = now + d
    /\ click' = "none"
    /\ UNCHANGED <<zoomLevel, pan, isPinchEnabled, isDragging, lastPanPosition,
                   dragStartPos, startDragTime, lastPointerType, activePointers,
                   initialPinchDistance, initialZoomLevel, panAtDown,
                   baselinePointers, treeVars>>

\* 441
handleZoomIn ==
    /\ zoomLevel' = RatMin(RatAdd(zoomLevel, ZoomStep), ZoomButtonMax)
    /\ UNCHANGED <<pan, gestureRefs, treeVars>>

\* 442
handleZoomOut ==
    /\ zoomLevel' = RatMax(RatSub(zoomLevel, ZoomStep), ZoomMin)
    /\ UNCHANGED <<pan, gestureRefs, treeVars>>

\* 860: setPinchEnabled(!isPinchEnabled)
togglePinch ==
    /\ isPinchEnabled' = ~isPinchEnabled
    /\ UNCHANGED <<zoomLevel, pan, isDragging, lastPanPosition, dragStartPos,
                   startDragTime, lastPointerType, activePointers,
                   initialPinchDistance, initialZoomLevel, now, click,
                   panAtDown, baselinePointers, treeVars>>

\* the events of the pointers ids at the places xs, and the click after an up
PointerEvents(ids, xs) ==
    \/ \E id \in ids, x \in xs : onPointerDown(id, Point(x, 0))
    \/ \E id \in ids, x \in xs : onPointerMove(id, Point(x, 0))
    \/ \E id \in ids, x \in xs : onPointerUp(id, Point(x, 0))
    \/ \E name \in {Art, Music} : handleDomainClickRequest(name)
    \/ NoClick

\* two touch pointers and the pinch toggle
NextGesture ==
    \/ PointerEvents({2, 3}, TouchXs)
    \/ togglePinch

SpecGesture == Init /\ [][NextGesture]_vars

\* clientX of the moving pointer of SpecView
ViewXs == {10, 20}

\* a touch pointer resting at x = 0 and one that moves, the pinch toggle,
\* the zoom buttons and the home button; no handler runs between a
\* pointer's up and its click, and no click lands on a sphere
NextView ==
    \/ onPointerDown(2, Origin)
    \/ onPointerUp(2, Origin)
    \/ \E x \in ViewXs : onPointerDown(3, Point(x, 0))
    \/ \E x \in ViewXs : onPointerMove(3, Point(x, 0))
    \/ \E x \in ViewXs : onPointerUp(3, Point(x, 0))
    \/ NoClick
    \/ togglePinch
    \/ click # "pending" /\ handleZoomIn
    \/ click # "pending" /\ handleZoomOut
    \/ click # "pending" /\ handleGoHome

SpecView == Init /\ [][NextView]_vars

\* clientX of the pointers of SpecThree
ThreeXs == {0, 10}

\* three touch pointers and the pinch toggle
NextThree ==
    \/ PointerEvents({2, 3, 4}, ThreeXs)
    \/ togglePinch

SpecThree == Init /\ [][NextThree]_vars

\* clientX of the pointer of SpecNavigate
NavigateXs == {0, 20}

\* one touch pointer with its taps, the zoom-in button and every handler
\* that sets currentPath, with the resolutions that let them all happen;
\* no handler runs between a pointer's up and its click
NextNavigate ==
    \/ PointerEvents({2}, NavigateXs)
    \/ click # "pending" /\ handleZoomIn
    \/ click # "pending" /\ handleBack
    \/ click # "pending" /\ \E pathIndex \in 0..1 : handleNavigate(pathIndex)
    \/ click # "pending" /\ handleNavigateRoot
    \/ click # "pending" /\ handleGoHome
    \/ click # "pending" /\ \E q \in Queries : executeSearch(q)
    \/ click # "pending" /\ \E i \in 1..MaxPromises, names \in ResolverResults :
                                 executeSearchResolve(i, names)
    \/ click # "pending" /\ \E i \in 1..MaxPromises, names \in ResolverResults :
                                 fetchChildrenResolve(i, names)

SpecNavigate == Init /\ [][NextNavigate]_vars

\* a pointer goes down while no other pointer is down
firstPointerDown(id, p) == activePointers = NoPointers /\ onPointerDown(id, p)

\* the mouse or one touch pointer, one at a time, and time
NextSingle ==
    \/ \E x \in MouseXs : firstPointerDown(1, Point(x, 0))
    \/ \E x \in TouchXs : firstPointerDown(2, Point(x, 0))
    \/ \E x \in MouseXs : onPointerMove(1, Point(x, 0))
    \/ \E x \in TouchXs : onPointerMove(2, Point(x, 0))
    \/ \E x \in MouseXs : onPointerUp(1, Point(x, 0))
    \/ \E x \in TouchXs : onPointerUp(2, Point(x, 0))
    \/ \E name \in {Art, Music} : handleDomainClickRequest(name)
    \/ NoClick
    \/ \E d \in TickSteps : Tick(d)

SpecSingle == Init /\ [][NextSingle]_vars

----------------------------------------------------------------------------
(* The liveness of the child fetch, checked under SpecLive.                *)

\* the paths the view can be at
LivePaths == UNION {[1..n -> {Art, art, Music, Jazz}] : n \in 0..MaxPromises}

\* the view is at path p, on a node whose children are unresolved
Unresolved(p) ==
    /\ currentPath = p
    /\ currentNode # Null
    /\ ~heap[currentNode].children.arr

\* the view is at path p, on a node with materialized children, not loading
Materialized(p) ==
    /\ currentPath = p
    /\ currentNode # Null
    /\ heap[currentNode].children.arr
    /\ ~isLoading

\* C11: once the view is at a node whose children are unresolved, and as
\* long as it stays at that path, the node's children eventually are
\* materialized in the current tree with the loading state cleared, given
\* that the resolver returns successfully. (SpecLive)
C11_FetchEventuallyMaterializes ==
    \A p \in LivePaths : Unresolved(p) ~> (Materialized(p) \/ currentPath # p)

\* the view went to Art, whose fetch has resolved: its children are in the
\* current tree and nothing is loading
C11_Witness ==
    /\ Materialized(<<Art>>)
    /\ \E i \in 1..Len(promises) :
            promises[i].kind = "children" /\ promises[i].status = "fulfilled"

----------------------------------------------------------------------------
(* Claims about the gesture controller.                                    *)

\* this step is the tap request of some sphere
TapRequest == \E name \in {Art, Music} : handleDomainClickRequest(name)

\* C12: a tap request navigates into the child only if the drag-committed
\* flag is false when it is made: a request made while isDragging is true
\* leaves the current path unchanged. (SpecGesture)
C12_TapOnlyWhenNotDragging ==
    [][TapRequest /\ isDragging => currentPath' = currentPath]_vars

\* a tap request has just been handled with the flag true, and the view is
\* where it was
C12_Witness ==
    /\ click = "requested"
    /\ isDragging
    /\ currentPath = <<>>

\* C13: for the mouse, tracked alone from Idle and moved, the up classifies
\* by the distance from the down position to the up position only: under 5
\* the drag is taken back, from 5 on it stays; and the request that follows
\* is honoured exactly when the flag is false, whatever time has passed.
\* (SpecSingle)
C13_MouseTapByDisplacement ==
    [][/\ \A x \in MouseXs :
            (/\ DOMAIN activePointers = {1}
             /\ isDragging
             /\ onPointerUp(1, Point(x, 0)))
            => (isDragging' <=>
                    getDistance(dragStartPos, Point(x, 0)) >= JitterThreshold)
       /\ (TapRequest /\ lastPointerType = "mouse")
            => ((currentPath' # currentPath) <=> ~isDragging)]_vars

\* the mouse moved, went up less than 5 from where it went down more than
\* 150 ms after the down, and its tap was honoured
C13_Witness ==
    /\ click = "requested"
    /\ lastPointerType = "mouse"
    /\ lastPanPosition # dragStartPos
    /\ now - startDragTime > TapDuration
    /\ currentPath # <<>>

\* C14: for a touch pointer tracked alone from Idle that did not commit to a
\* drag, the tap request is honoured if and only if less than 150 ms have
\* passed since the down. (SpecSingle)
C14_TouchTapBelow150 ==
    [][(TapRequest /\ lastPointerType = "touch" /\ ~isDragging)
            => ((currentPath' # currentPath) <=>
                    (now - startDragTime < TapDuration))]_vars

\* this step is a pointer-move of a tracked pointer while exactly two
\* pointers are active and pinch is enabled
PinchMove ==
    /\ size(activePointers) = 2
    /\ isPinchEnabled
    /\ \E id \in DOMAIN activePointers, x \in TouchXs : onPointerMove(id, Point(x, 0))

\* C15: while exactly two pointers are active with pinch enabled, no
\* pointer-move changes the pan offset, whatever the two pointers do and
\* whatever the initial distance was. (SpecGesture)
C15_PinchNeverPans == [][PinchMove => pan' = pan]_vars

\* two pointers that went down at the same place with pinch enabled have
\* moved apart
C15_Witness ==
    /\ size(activePointers) = 2
    /\ isPinchEnabled
    /\ initialPinchDistance = 0
    /\ pinchDistance(activePointers) # 0

\* the value of a division by zero that Math.max and Math.min propagate
NaN == [n |-> 0, d |-> 0]

\* clamp(z * cur / init, 0.6, 2.5) as the arithmetic of the program yields
\* it: cur / 0 is Infinity for cur > 0, and 0 / 0 is NaN
clampedPinch(z, cur, init) ==
    IF init # 0
    THEN LET v == Rat(z.n * cur, z.d * init)
         IN IF RatLeq(v, Rat(3, 5)) THEN Rat(3, 5)
            ELSE IF RatLeq(Rat(5, 2), v) THEN Rat(5, 2) ELSE v
    ELSE IF cur # 0 THEN Rat(5, 2) ELSE NaN

\* C16 as claimed: after every pointer-move of a pinch the zoom level is
\* clamp(zoomAtPinchStart * currentDistance / initialDistance, 0.6, 2.5) of
\* the values captured when the second pointer went down. (SpecGesture)
C16_PinchZoomIsClampedRatio ==
    [][(PinchMove /\ initialPinchDistance # NoDistance)
            => zoomLevel' = clampedPinch(initialZoomLevel,
                                         pinchDistance(activePointers'),
                                         initialPinchDistance)]_vars

\* C16 amended: the zoom level is that clamped ratio whenever the captured
\* initial distance is not zero; when it is zero, or none was captured, the
\* move leaves the zoom level unchanged. (SpecGesture)
C16_PinchZoomIsClampedRatioOfNonzeroBaseline ==
    [][PinchMove
            => zoomLevel' = IF truthy(initialPinchDistance)
                            THEN clampedPinch(initialZoomLevel,
                                              pinchDistance(activePointers'),
                                              initialPinchDistance)
                            ELSE zoomLevel]_vars

\* a pinch with a captured non-zero distance has moved the zoom level to the
\* upper clamp
C16_Witness ==
    /\ size(activePointers) = 2
    /\ isPinchEnabled
    /\ truthy(initialPinchDistance)
    /\ initialZoomLevel = Rat(2, 1)
    /\ pinchDistance(activePointers) = 2 * initialPinchDistance
    /\ zoomLevel = Rat(5, 2)

\* C17: when a tracked pointer goes up and exactly one remains, the flag
\* becomes true and the pan reference becomes the remaining pointer's last
\* position; a move of a sole pointer that is dragging pans by exactly the
\* difference to that pointer's last position; and lifting a dragging touch
\* pointer leaves the flag true, so that its tap request does not navigate.
\* (SpecGesture)
C17_ResumePanAfterPinch ==
    [][\A id \in {2, 3}, x \in TouchXs :
        /\ (id \in DOMAIN activePointers /\ size(activePointers) = 2
                /\ onPointerUp(id, Point(x, 0)))
            => /\ isDragging'
               /\ \A r \in DOMAIN activePointers \ {id} :
                        lastPanPosition' = activePointers[r]
        /\ (DOMAIN activePointers = {id} /\ isDragging
                /\ onPointerMove(id, Point(x, 0)))
            => pan' = Point(pan.x + (x - activePointers[id].x),
                            pan.y + (0 - activePointers[id].y))
        /\ (DOMAIN activePointers = {id} /\ isDragging
                /\ onPointerUp(id, Point(x, 0)))
            => isDragging'
        /\ (TapRequest /\ isDragging) => UNCHANGED currentPath]_vars

\* one of two pointers has just gone up: the other one is dragging from
\* where it is
C17_Witness ==
    /\ click = "pending"
    /\ size(activePointers) = 1
    /\ isDragging
    /\ lastPanPosition = remaining(activePointers)
    /\ lastPanPosition # dragStartPos

\* C18: a pointer that goes down from Idle starts with the flag false; the
\* first move of a mouse sets it true; a move of a touch pointer sets it
\* true exactly when its distance from the down position exceeds 10, and
\* leaves the pan offset unchanged as long as it does not. (SpecSingle)
C18_DragCommitThreshold ==
    [][/\ \A id \in {1, 2}, x \in MouseXs \cup TouchXs :
            firstPointerDown(id, Point(x, 0)) => ~isDragging'
       /\ \A x \in MouseXs :
            (DOMAIN activePointers = {1} /\ ~isDragging
                /\ onPointerMove(1, Point(x, 0)))
            => isDragging'
       /\ \A x \in TouchXs :
            (DOMAIN activePointers = {2} /\ ~isDragging
                /\ onPointerMove(2, Point(x, 0)))
            => /\ isDragging' <=>
                    (getDistance(dragStartPos, Point(x, 0)) > DragThreshold)
               /\ ~isDragging' => pan' = pan]_vars

\* a touch pointer has moved exactly 10 from where it went down and has not
\* committed
C18_Witness ==
    /\ DOMAIN activePointers = {2}
    /\ lastPointerType = "touch"
    /\ getDistance(dragStartPos, activePointers[2]) = DragThreshold
    /\ ~isDragging
    /\ pan = Origin

\* C19: a pointer-move or pointer-up/leave of a pointer id that is not in
\* the active set leaves the flag, the pan offset, the zoom level, the pan
\* reference, the pinch baseline and the active set unchanged. (SpecGesture)
C19_UntrackedEventsIgnored ==
    [][\A id \in {2, 3} \ DOMAIN activePointers, x \in TouchXs :
            (onPointerMove(id, Point(x, 0)) \/ onPointerUp(id, Point(x, 0)))
            => UNCHANGED <<isDragging, pan, zoomLevel, lastPanPosition,
                           initialPinchDistance, initialZoomLevel,
                           activePointers>>]_vars

\* ---------------------------------------------------------------------
\* calculateChaoticLayout. Coordinates, radii and cached positions of the
\* layout are fixed-point numbers, Scale units to one layout unit; square
\* roots and quotients are rounded to the nearest unit.

Scale == 100
SpaceCenter == 50 * Scale
iterations == 300
PairMargin == 2 * Scale
CenterMargin == 4 * Scale
MaxChildren == 3

Abs(n) == IF n < 0 THEN -n ELSE n
Sgn(n) == IF n < 0 THEN -1 ELSE IF n > 0 THEN 1 ELSE 0

\* n / d, rounded to the nearest unit
RoundDiv(n, d) == Sgn(n) * ((2 * Abs(n) + d) \div (2 * d))

\* the largest r in lo..hi with r * r <= n
RECURSIVE sqrtBetween(_, _, _)
sqrtBetween(n, lo, hi) ==
    IF lo >= hi THEN lo
    ELSE LET mid == (lo + hi + 1) \div 2
         IN IF mid * mid <= n THEN sqrtBetween(n, mid, hi)
            ELSE sqrtBetween(n, lo, mid - 1)

\* Math.sqrt(dx * dx + dy * dy)
hypot(dx, dy) ==
    LET n == dx * dx + dy * dy
        r == sqrtBetween(n, 0, 2 * (Abs(dx) + Abs(dy)))
    IN IF n - r * r > r THEN r + 1 ELSE r

\* calculateSphereSize of ./DomainSphere: larger for longer names
calculateSphereSize(name) == (10 + Len(name)) * Scale

\* size * 0.56
radiusOf(name) == RoundDiv(calculateSphereSize(name) * 56, 100)

\* the values Math.random() returns, in Scale units
RandomDraws == {Scale \div 2, (3 * Scale) \div 4}

\* cached positions of the input children
CachedPositions == {Pos(10 * Scale, 10 * Scale), Pos(50 * Scale, 50 * Scale)}

\* one element of domains.map(domain => ...), with random draws rx and ry
startNode(domain, rx, ry) ==
    [name |-> domain.name,
     radius |-> radiusOf(domain.name),
     x |-> IF domain.position.set THEN domain.position.x
           ELSE SpaceCenter + (rx - Scale \div 2) * 30,
     y |-> IF domain.position.set THEN domain.position.y
           ELSE SpaceCenter + (ry - Scale \div 2) * 30]

\* the body of the loop over k: nodes j and k are pushed apart; the cosine
\* and sine of atan2(dy, dx) are dx / distance and dy / distance
separate(nodes, j, k) ==
    LET node1 == nodes[j]
        node2 == nodes[k]
        dx == node2.x - node1.x
        dy == node2.y - node1.y
        distance == hypot(dx, dy)
        minDistance == node1.radius + node2.radius + PairMargin
    IN IF distance < minDistance /\ distance > 0
       THEN LET overlap == minDistance - distance
                pushX == RoundDiv(overlap * dx, 2 * distance)
                pushY == RoundDiv(overlap * dy, 2 * distance)
            IN [nodes EXCEPT ![j].x = node1.x - pushX, ![j].y = node1.y - pushY,
                             ![k].x = node2.x + pushX, ![k].y = node2.y + pushY]
       ELSE nodes

\* for (j ...) for (k = j + 1 ...), from pair (j, k) on
RECURSIVE pairLoop(_, _, _)
pairLoop(nodes, j, k) ==
    IF j > Len(nodes) THEN nodes
    ELSE IF k > Len(nodes) THEN pairLoop(nodes, j + 1, j + 2)
    ELSE pairLoop(separate(nodes, j, k), j, k + 1)

\* the body of the loop over nodes as it would be with the pull alone
centerStep_PullOnly(node, centerRadius) ==
    [node EXCEPT !.x = node.x + RoundDiv((SpaceCenter - node.x) * 15, 1000),
                 !.y = node.y + RoundDiv((SpaceCenter - node.y) * 15, 1000)]

\* the body of the loop over nodes: pull to the center, then push out of
\* the center's exclusion zone
centerStep(node, centerRadius) ==
    LET dxToCenter == SpaceCenter - node.x
        dyToCenter == SpaceCenter - node.y
        pulledX == node.x + RoundDiv(dxToCenter * 15, 1000)
        pulledY == node.y + RoundDiv(dyToCenter * 15, 1000)
        distanceFromCenter == hypot(dxToCenter, dyToCenter)
        minDistanceFromCenter == centerRadius + node.radius + CenterMargin
    IN IF distanceFromCenter < minDistanceFromCenter /\ distanceFromCenter > 0
       THEN LET overlap == minDistanceFromCenter - distanceFromCenter
            IN [node EXCEPT
                   !.x = pulledX - RoundDiv(overlap * dxToCenter, distanceFromCenter),
                   !.y = pulledY - RoundDiv(overlap * dyToCenter, distanceFromCenter)]
       ELSE [node EXCEPT !.x = pulledX, !.y = pulledY]

\* one pass of the outer loop
iteration(nodes, centerRadius) ==
    LET pushed == pairLoop(nodes, 1, 2)
    IN [n \in 1..Len(nodes) |-> centerStep(pushed[n], centerRadius)]

\* the children a layout call is given: child n is named LayoutName(n)
LayoutName(n) == <<Art, Jazz, Music>>[((n - 1) % 3) + 1]
LayoutInputs ==
    {NullChildren} \cup
    {Arr([n \in 1..Len(ps) |-> [name |-> LayoutName(n), position |-> ps[n]]]) :
        ps \in UNION {[1..n -> {NoPos} \cup CachedPositions] : n \in 1..MaxChildren}}

InitLayout ==
    /\ heap = <<>>
    /\ domainTree = Null
    /\ call = NoCall
    /\ currentPath = <<>>
    /\ isLoading = FALSE
    /\ isMoreLoading = FALSE
    /\ isSearching = FALSE
    /\ error = "null"
    /\ loadMoreVariant = 0
    /\ promises = <<>>
    /\ GestureInit
    /\ \E domains \in LayoutInputs, centerNodeName \in {Art, Music} :
            layout = [state |-> "called", domains |-> domains,
                      centerNodeName |-> centerNodeName, i |-> 0, nodes |-> <<>>,
                      run |-> 1, previous |-> <<>>]

layoutFrame == <<heap, domainTree, appVars, call, zoomLevel, pan, gestureRefs>>

\* calculateChaoticLayout up to its loop: the early return for no children,
\* else the start nodes, with the random draws Math.random() makes
layoutStart ==
    /\ layout.state = "called"
    /\ IF ~layout.domains.arr
       THEN layout' = [layout EXCEPT !.state = "returned"]
       ELSE \E rx, ry \in [1..Len(layout.domains.items) -> RandomDraws] :
                layout' = [layout EXCEPT
                    !.state = "relaxing",
                    !.nodes = [n \in 1..Len(layout.domains.items) |->
                                  startNode(layout.domains.items[n], rx[n], ry[n])]]
    /\ UNCHANGED layoutFrame

\* one pass of for (let i = 0; i < iterations; i++)
layoutIterate ==
    /\ layout.state = "relaxing"
    /\ layout.i < iterations
    /\ layout' = [layout EXCEPT
                    !.i = layout.i + 1,
                    !.nodes = iteration(layout.nodes, radiusOf(layout.centerNodeName))]
    /\ UNCHANGED layoutFrame

\* return nodes.map(node => ({...node, position: {x: node.x, y: node.y}}))
layoutReturn ==
    /\ layout.state = "relaxing"
    /\ layout.i >= iterations
    /\ layout' = [layout EXCEPT !.state = "returned"]
    /\ UNCHANGED layoutFrame

\* the returned children, each with its position, are laid out once more
\* around the same center
layoutAgain ==
    /\ layout.state = "returned"
    /\ layout.run = 1
    /\ layout.domains.arr
    /\ layout' = [state |-> "called",
                  domains |-> Arr([n \in 1..Len(layout.nodes) |->
                                      [name |-> layout.nodes[n].name,
                                       position |-> Pos(layout.nodes[n].x, layout.nodes[n].y)]]),
                  centerNodeName |-> layout.centerNodeName,
                  i |-> 0, nodes |-> <<>>, run |-> 2, previous |-> layout.nodes]
    /\ UNCHANGED layoutFrame

NextLayout == layoutStart \/ layoutIterate \/ layoutReturn \/ layoutAgain

SpecLayout == InitLayout /\ [][NextLayout]_vars

\* C20: in the result of calculateChaoticLayout every two children are at
\* least the sum of their radii apart, and every child is at least the
\* center's radius plus its own radius away from the space center.
\* (SpecLayout)
C20_NoOverlapAfterRelaxation ==
    layout.state = "returned" =>
        LET nodes == layout.nodes
            centerRadius == radiusOf(layout.centerNodeName)
        IN /\ \A j, k \in 1..Len(nodes) :
                j < k => hypot(nodes[k].x - nodes[j].x, nodes[k].y - nodes[j].y)
                            >= nodes[j].radius + nodes[k].radius
           /\ \A j \in 1..Len(nodes) :
                hypot(nodes[j].x - SpaceCenter, nodes[j].y - SpaceCenter)
                    >= centerRadius + nodes[j].radius

C22_Parent ==
    << Domain(RootId, SparkSphere, Arr(<<2, 3>>), NoSource, NoPos),
       Domain(Art, Art, NullChildren, "ai", Pos(10 * Scale, 10 * Scale)),
       Domain(Jazz, Jazz, NullChildren, "ai", NoPos) >>

\* the parent's children after updateNodeByPath replaced them with new
\* objects A, B, C: what the layout is then given
C22_Replaced ==
    LET newChildren == allocDomains(C22_Parent, <<Art, Jazz, Music>>)
        r == updateNodeByPath(newChildren.heap, 1, <<>>, newChildren.items)
        items == r.heap[r.root].children.items
    IN Arr([n \in 1..Len(items) |->
               [name |-> r.heap[items[n]].name, position |-> r.heap[items[n]].position]])

\* C22: when the children [A at cached (10,10), B] of a parent are replaced
\* with [A, B, C] and laid out, A is returned at (10,10). (SpecLayout)
C22_CachedChildStaysAtCachedPosition ==
    (layout.state = "returned" /\ layout.run = 1 /\ layout.domains = C22_Replaced) =>
        /\ layout.nodes[1].x = 10 * Scale
        /\ layout.nodes[1].y = 10 * Scale

\* ---------------------------------------------------------------------
\* orbitingChildren: the memoized layout of the displayed node.

\* currentPath.length > 0 ? currentPath[currentPath.length - 1]
\*                        : (domainTree?.name || "SparkSphere")
centerNodeName ==
    IF currentPath # <<>> THEN currentPath[Len(currentPath)]
    ELSE IF domainTree # Null THEN heap[domainTree].name
    ELSE SparkSphere

\* currentNode?.children as useMemo compares it: undefined, null, or the
\* identity of the array, which is that of the node object it was made for
childrenIdentity ==
    IF currentNode = Null THEN [kind |-> "undefined", ref |-> Null]
    ELSE IF ~heap[currentNode].children.arr THEN [kind |-> "null", ref |-> Null]
    ELSE [kind |-> "array", ref |-> currentNode]

\* the dependency list [currentNode?.children, containerSize, currentPath,
\* domainTree?.name]; the container size is set once
orbitingDeps ==
    <<childrenIdentity, currentPath,
      IF domainTree # Null THEN heap[domainTree].name ELSE <<>>>>

\* the children the view displays, as a value: null, or their ids and names
displayedChildSet ==
    IF currentNode = Null \/ ~heap[currentNode].children.arr THEN NullChildren
    ELSE Arr([n \in 1..Len(heap[currentNode].children.items) |->
             <<heap[heap[currentNode].children.items[n]].id,
               heap[heap[currentNode].children.items[n]].name>>])

\* C23: a step that changes neither the displayed node's child set nor the
\* center node leaves the dependencies of the memoized layout unchanged, so
\* the layout is not run again. (Spec)
C23_LayoutRunsOnlyOnChange ==
    [][(displayedChildSet' = displayedChildSet /\ centerNodeName' = centerNodeName)
            => orbitingDeps' = orbitingDeps]_vars

\* the tree is there but the current path leads to no node in it, no
\* request is outstanding and no error is shown
Stranded ==
    /\ domainTree # Null
    /\ currentNode = Null
    /\ \A i \in 1..Len(promises) : promises[i].status # "pending"
    /\ error = "null"

\* C24: the view does not stay for ever on a path that does not resolve in
\* the current tree with no request outstanding and no error shown.
\* (SpecSettling)
C24_NeverStrandedForEver == []<>(~Stranded)

\* C25: while the only pointer of an interaction is down and the drag is
\* committed, the pan offset has moved since the pointer went down by
\* exactly the pointer's way from its down position to its last reported
\* position. (SpecSingle)
C25_PanFollowsPointer ==
    \A id \in DOMAIN activePointers :
        isDragging =>
            /\ pan.x - panAtDown.x = activePointers[id].x - dragStartPos.x
            /\ pan.y - panAtDown.y = activePointers[id].y - dragStartPos.y

\* C26: the zoom level is at least 0.6 and at most 2.5 in every reachable
\* state, whatever pinch moves, zoom button presses and navigations led to
\* it. (SpecView)
C26_ZoomWithinRange ==
    RatLeq(ZoomMin, zoomLevel) /\ RatLeq(zoomLevel, ZoomPinchMax)

\* a pinch, begun at a zoom level the buttons had set, is at the upper end
\* of the range
C26_Witness ==
    /\ size(activePointers) = 2
    /\ initialZoomLevel = Rat(8, 5)
    /\ zoomLevel = ZoomPinchMax

\* C27: a press of zoom-in never lowers the zoom level and a press of
\* zoom-out never raises it, also when a pinch set the level. (SpecView)
C27_ZoomButtonsMonotone ==
    [][/\ handleZoomIn => RatLeq(zoomLevel, zoomLevel')
       /\ handleZoomOut => RatLeq(zoomLevel', zoomLevel)]_vars

\* C28: whenever a pointer-move changes the zoom level, the pinch baseline
\* in use was measured between the two pointers that are active now.
\* (SpecThree)
C28_BaselineOfActivePair ==
    [][\A id \in {2, 3, 4}, x \in ThreeXs :
            (onPointerMove(id, Point(x, 0)) /\ zoomLevel' # zoomLevel)
                => baselinePointers = DOMAIN activePointers]_vars

\* C29: in every reachable state no node of the current tree carries a
\* cached position, so the layout seeds every displayed child from the
\* random source. (Spec)
C29_NoPositionInTree ==
    \A a \in Reach(heap, domainTree) : ~heap[a].position.set

\* a child fetch and a load-more have both written their children into the
\* tree
C29_Witness ==
    /\ \E i \in 1..Len(promises) :
            promises[i].kind = "children" /\ promises[i].status = "fulfilled"
    /\ \E i \in 1..Len(promises) :
            promises[i].kind = "more" /\ promises[i].status = "fulfilled"
    /\ Cardinality(Reach(heap, domainTree)) > 4

\* C30: every step that changes the current path leaves the view at zoom 1
\* and pan (0,0), whatever the zoom, the pan and the pointers were before.
\* (SpecNavigate)
C30_PathChangeResetsView ==
    [][currentPath' # currentPath => zoomLevel' = One /\ pan' = Origin]_vars

\* a finger went down on a panned view and has not dragged since, and the
\* view is back at zoom 1 and pan (0,0) on another path: a navigation reset
\* it under the finger
C30_Witness ==
    /\ activePointers # NoPointers
    /\ ~isDragging
    /\ panAtDown # Origin
    /\ pan = Origin
    /\ zoomLevel = One
    /\ currentPath # <<>>

====
